---- MODULE Spec2Model ----
(***************************************************************************)
(* Signal engine: the SSE broadcaster and scheduler of src/server.py with  *)
(* the signal generators of src/strategies.py and the order sink of        *)
(* src/main.py (specification Spec), and the multi-strategy voting engine  *)
(* of src/app/engine/strategies.py (specification SpecEngine).             *)
(*                                                                         *)
(* asyncio is cooperative: a task runs until it suspends.  Queues are      *)
(* created with asyncio.Queue(), maxsize 0, so put never suspends and the  *)
(* scheduler task suspends only in asyncio.sleep(60); the stream tasks and *)
(* the connection handlers run while the scheduler sleeps.                 *)
(***************************************************************************)
EXTENDS Integers, Sequences, FiniteSets, TLC

\* ---------------------------------------------------------------- bounds
MaxSubs == 2        \* connections accepted on GET /events
MaxCycles == 2      \* iterations of scheduler_loop
MaxLiveSubs == 1    \* connections accepted where progress is checked

\* ------------------------------------------------------ program constants
QueueMaxSize == 0   \* asyncio.Queue() : maxsize 0 means unbounded
MomentumMinLen == 2
SmaFast == 10
SmaSlow == 30
RsiPeriod == 14
RsiOversold == 30
RsiOverbought == 70
MacdSlow == 26
MacdSignalLen == 9

SYMBOLS == <<"BTC", "ETH">>

Qids == 1..(MaxSubs + 1)

VARIABLES
  connections,   \* Broadcaster.connections: list of queue ids
  queues,        \* queue id -> pending messages (FIFO)
  nq,            \* number of queues created so far
  stream,        \* queue id -> position of its event_generator
  disconnected,  \* queue id -> the client of that stream has gone away
  observed,      \* queue id -> message events the generator has yielded
  first,         \* queue id -> kind of the first event it yielded
  spc,           \* position of scheduler_loop
  cycle,         \* iterations started
  feed,          \* what the provider holds for SYMBOLS in this iteration
  signals,       \* the list returned by generate_signals_for_symbols
  idx,           \* index of the signal being processed
  failed,        \* index of the symbol whose download raised (0: none)
  orders,        \* orders handled by submit_order in this iteration
  errmsg,        \* exception caught by the outer handler
  npub,          \* publish calls made in this iteration
  lastPub,       \* the publish call of this iteration that returned last:
                 \* its message and the registry at the call
  unsubscribed,  \* queue ids for which unsubscribe has returned
  subAt,         \* queue id -> iteration during whose sleep it subscribed
  lastUnsub,     \* the latest direct call of unsubscribe: its argument and
                 \* the registry it found
  epc,           \* position of analyze_symbol
  input,         \* arguments of analyze_symbol
  ind,           \* the two most recent RSI values the RSI voter read
  votes,         \* the votes dict (empty until the voters have run)
  result         \* the record analyze_symbol returned

svars == <<connections, queues, nq, stream, disconnected, observed, first,
           spc, cycle,
           feed, signals, idx, failed, orders, errmsg, npub, lastPub,
           unsubscribed, subAt>>
evars == <<epc, input, ind, votes, result>>
ovars == <<evars, lastUnsub>>
vars == <<svars, ovars>>

NoPub == [id |-> <<0, 0>>]
NoCall == [q |-> 0]

\* publish calls are identified by <<iteration, call within the iteration>>
Before(a, b) == a[1] < b[1] \/ (a[1] = b[1] /\ a[2] < b[2])

\* ------------------------------------------------------------ Broadcaster

\* asyncio.Queue.full()
Full(q) == QueueMaxSize > 0 /\ Len(queues[q]) >= QueueMaxSize

\* an unsubscribe that pops the head of the list instead of q
RemoveHead(list, q) == IF list = <<>> THEN <<>> ELSE Tail(list)

\* a removal by position that takes a failed search (-1) for the last place
RemoveByIndex(list, q) ==
  LET hits == {i \in 1..Len(list) : list[i] = q}
      k == IF hits = {} THEN Len(list)
           ELSE CHOOSE i \in hits : \A j \in hits : i <= j
  IN  SubSeq(list, 1, k - 1) \o SubSeq(list, k + 1, Len(list))

RECURSIVE Remove(_, _)
\* list.remove(q): drops the first occurrence; ValueError is swallowed
Remove(list, q) ==
  IF list = <<>> THEN <<>>
  ELSE IF Head(list) = q THEN Tail(list)
  ELSE <<Head(list)>> \o Remove(Tail(list), q)

Range(s) == {s[i] : i \in 1..Len(s)}

\* a get that takes the newest item (a LIFO queue)
QueueGetNewest(items) ==
  [item |-> items[Len(items)], rest |-> SubSeq(items, 1, Len(items) - 1)]

\* asyncio.Queue.get on a non-empty queue: the oldest item leaves
QueueGet(items) == [item |-> Head(items), rest |-> Tail(items)]

\* a publish that returns from inside its loop: the first queue only
PutFirstOnly(qs, snapshot, msg) ==
  IF snapshot = <<>> THEN qs
  ELSE [qs EXCEPT ![Head(snapshot)] = Append(@, msg)]

RECURSIVE PutAll(_, _, _)
\* the loop of publish over the snapshot list(self.connections)
PutAll(qs, snapshot, msg) ==
  IF snapshot = <<>> THEN qs
  ELSE LET q == Head(snapshot)
       IN  PutAll([qs EXCEPT ![q] = Append(@, msg)], Tail(snapshot), msg)

\* Broadcaster.publish: no target is full, so no put suspends
Publish(data) ==
  LET msg == [type |-> data.type, payload |-> data.payload,
              id |-> <<cycle, npub + 1>>]
  IN  /\ \A i \in 1..Len(connections) : ~Full(connections[i])
      /\ queues' = PutAll(queues, connections, msg)
      /\ npub' = npub + 1
      /\ lastPub' = [id |-> msg.id, msg |-> msg, registry |-> connections]
      /\ UNCHANGED connections

\* Broadcaster.unsubscribe
Unsubscribe(q) ==
  /\ connections' = Remove(connections, q)
  /\ unsubscribed' = unsubscribed \cup {q}


\* ------------------------------------------- src/strategies.py generators

\* Price histories the provider returns: length, last return (in 1/10000),
\* last close, the last two RSI values and the last two MACD-signal gaps.
EmptyFrame ==
  [len |-> 0,  ret |-> 0,    close |-> 0,  rsiPrev |-> 50, rsiLast |-> 50,
   macdPrev |-> 0,  macdLast |-> 0]
RisingFrame ==
  [len |-> 5,  ret |-> 150,  close |-> 20, rsiPrev |-> 50, rsiLast |-> 50,
   macdPrev |-> 0,  macdLast |-> 0]
LongFrame ==
  [len |-> 40, ret |-> 0,    close |-> 30, rsiPrev |-> 25, rsiLast |-> 35,
   macdPrev |-> 1,  macdLast |-> 1]

\* What the provider returns for SYMBOLS in one iteration
Feeds == { <<EmptyFrame, EmptyFrame>>, <<RisingFrame, LongFrame>> }

Abs(x) == IF x < 0 THEN 0 - x ELSE x
Min(a, b) == IF a < b THEN a ELSE b

\* symbol.replace('USD', '') applied to the yfinance symbol '<sym>-USD'
Crypto(sym) == <<sym, "-">>

MkSignal(sym, action, f, strategie, konfidenz) ==
  [crypto |-> Crypto(sym), action |-> action, preis |-> f.close, menge |-> 1,
   anteil |-> 100, strategie |-> strategie, konfidenz |-> konfidenz]

momentum_strategy(sym, f) ==
  IF f.len = 0 \/ f.len < MomentumMinLen THEN <<>>
  ELSE IF f.ret > 0
    THEN <<MkSignal(sym, "KAUF", f, "Momentum", Min(99, f.ret))>>
  ELSE IF f.ret < 0
    THEN <<MkSignal(sym, "VERKAUF", f, "Momentum", Min(99, Abs(f.ret)))>>
  ELSE <<>>

\* rolling(window).mean() leaves the first window-1 rows NaN, and the
\* function returns [] when any row of either average is NaN
sma_crossover_strategy(sym, f) ==
  IF f.len = 0 \/ f.len < SmaSlow + 2 THEN <<>>
  ELSE IF SmaFast - 1 > 0 \/ SmaSlow - 1 > 0 THEN <<>>
  ELSE <<MkSignal(sym, "KAUF", f, "SMA", 80)>>

rsi_strategy(sym, f) ==
  IF f.len = 0 \/ f.len < RsiPeriod + 2 THEN <<>>
  ELSE IF f.rsiPrev < RsiOversold /\ f.rsiLast >= RsiOversold
    THEN <<MkSignal(sym, "KAUF", f, "RSI", 75)>>
  ELSE IF f.rsiPrev > RsiOverbought /\ f.rsiLast <= RsiOverbought
    THEN <<MkSignal(sym, "VERKAUF", f, "RSI", 75)>>
  ELSE <<>>

macd_strategy(sym, f) ==
  IF f.len = 0 \/ f.len < MacdSlow + MacdSignalLen + 2 THEN <<>>
  ELSE IF f.macdPrev <= 0 /\ f.macdLast > 0
    THEN <<MkSignal(sym, "KAUF", f, "MACD", 78)>>
  ELSE IF f.macdPrev >= 0 /\ f.macdLast < 0
    THEN <<MkSignal(sym, "VERKAUF", f, "MACD", 78)>>
  ELSE <<>>

\* the four extend calls of one pass of the loop over symbols
SymbolSignals(sym, f) ==
  momentum_strategy(sym, f)
  \o sma_crossover_strategy(sym, f)
  \o rsi_strategy(sym, f)
  \o macd_strategy(sym, f)

RECURSIVE GenFrom(_, _)
GenFrom(data, i) ==
  IF i > Len(SYMBOLS) THEN <<>>
  ELSE SymbolSignals(SYMBOLS[i], data[i]) \o GenFrom(data, i + 1)

\* the list built when no download raises
generate_signals_for_symbols(data) == GenFrom(data, 1)

\* ------------------------------------------------- src/main.py order sink

\* submit_order: every exception (no API keys, a call the broker refuses)
\* is caught and logged inside the function
submit_order(s, brokerOk) ==
  IF ~brokerOk THEN [crypto |-> s.crypto, side |-> "none", logged |-> "error"]
  ELSE IF s.action = "KAUF"
    THEN [crypto |-> s.crypto, side |-> "buy", logged |-> "info"]
  ELSE IF s.action = "VERKAUF"
    THEN [crypto |-> s.crypto, side |-> "sell", logged |-> "info"]
  ELSE [crypto |-> s.crypto, side |-> "none", logged |-> "info"]

\* ----------------------------------------------------------- scheduler_loop

\* s['timestamp'] = datetime.now(...).isoformat(): written into the dict
Stamp(s) ==
  [k \in DOMAIN s \cup {"timestamp"} |->
     IF k = "timestamp" THEN cycle ELSE s[k]]

\* an exception that would leave scheduler_loop uncaught
OuterExceptMissing(e) == "dead"

\* except Exception as e: every raise inside the try block lands here
OuterExcept(e) == "except"

StreamsIdle == UNCHANGED <<nq, stream, disconnected, observed, first,
                           unsubscribed, subAt>>

SchedGenerate ==
  /\ spc = "run"
  /\ \E data \in Feeds, f \in 0..Len(SYMBOLS) :
       /\ feed' = data
       /\ failed' = f
       /\ IF f = 0
            THEN /\ signals' = generate_signals_for_symbols(data)
                 /\ spc' = IF signals' = <<>> THEN "end" ELSE "loop"
                 /\ errmsg' = "none"
            ELSE /\ signals' = <<>>
                 /\ spc' = OuterExcept("download failed")
                 /\ errmsg' = "download failed"
  /\ idx' = 1
  /\ orders' = <<>>
  /\ UNCHANGED <<connections, queues, npub, lastPub, cycle>>
  /\ StreamsIdle
  /\ UNCHANGED ovars

SchedPublishSignal ==
  /\ spc = "loop"
  /\ idx <= Len(signals)
  /\ signals' = [signals EXCEPT ![idx] = Stamp(@)]
  /\ Publish([type |-> "signal", payload |-> signals'[idx]])
  /\ spc' = "order"
  /\ UNCHANGED <<feed, idx, failed, orders, errmsg, cycle>>
  /\ StreamsIdle
  /\ UNCHANGED ovars

\* a loop that gives up the batch when an order was refused
AfterOrderAborts(rec, i, n) ==
  IF rec.logged = "error" \/ i + 1 > n THEN "end" ELSE "loop"

\* submit_order has returned, whatever it logged: the for loop goes on
AfterOrder(rec, i, n) == IF i + 1 > n THEN "end" ELSE "loop"

SchedSubmitOrder ==
  /\ spc = "order"
  /\ \E brokerOk \in BOOLEAN :
       /\ orders' = Append(orders, submit_order(signals[idx], brokerOk))
       /\ spc' = AfterOrder(submit_order(signals[idx], brokerOk), idx,
                            Len(signals))
  /\ idx' = idx + 1
  /\ UNCHANGED <<connections, queues, npub, lastPub, feed, signals, failed,
                 errmsg, cycle>>
  /\ StreamsIdle
  /\ UNCHANGED ovars

SchedPublishError ==
  /\ spc = "except"
  /\ Publish([type |-> "error", payload |-> [message |-> errmsg]])
  /\ spc' = "end"
  /\ UNCHANGED <<feed, signals, idx, failed, orders, errmsg, cycle>>
  /\ StreamsIdle
  /\ UNCHANGED ovars

\* await asyncio.sleep(60): the task suspends; the locals of the finished
\* iteration are dead (each is assigned again before it is read)
SchedSleep ==
  /\ spc = "end"
  /\ spc' = "sleep"
  /\ feed' = <<>>
  /\ signals' = <<>>
  /\ idx' = 1
  /\ failed' = 0
  /\ orders' = <<>>
  /\ errmsg' = "none"
  /\ npub' = 0
  /\ lastPub' = NoPub
  /\ UNCHANGED <<connections, queues, cycle>>
  /\ StreamsIdle
  /\ UNCHANGED ovars

\* asyncio.sleep(60) elapses and the next iteration starts
SchedWake ==
  /\ spc = "sleep"
  /\ cycle < MaxCycles
  /\ cycle' = cycle + 1
  /\ spc' = "run"
  /\ UNCHANGED <<connections, queues, npub, lastPub, feed, signals, idx,
                 failed, orders, errmsg>>
  /\ StreamsIdle
  /\ UNCHANGED ovars

SchedIdle == UNCHANGED <<spc, cycle, feed, signals, idx, failed, orders,
                         errmsg, npub, lastPub>>


\* ------------------------------------------- GET /events and its generator

Sleeping == spc = "sleep"

\* sse: client = await broadcaster.subscribe(); the generator is returned
Accept(limit) ==
  /\ Sleeping
  /\ nq < limit
  /\ LET q == nq + 1
     IN  /\ nq' = q
         /\ connections' = Append(connections, q)
         /\ stream' = [stream EXCEPT ![q] = "check"]
         /\ subAt' = [subAt EXCEPT ![q] = cycle]
  /\ UNCHANGED <<queues, disconnected, observed, first, unsubscribed>>
  /\ SchedIdle
  /\ UNCHANGED ovars

Subscribe == Accept(MaxSubs)

\* the client closes the connection
Disconnect(q) ==
  /\ Sleeping
  /\ stream[q] \in {"check", "wait"}
  /\ ~disconnected[q]
  /\ disconnected' = [disconnected EXCEPT ![q] = TRUE]
  /\ UNCHANGED <<connections, queues, nq, stream, observed, first,
                 unsubscribed, subAt>>
  /\ SchedIdle
  /\ UNCHANGED ovars

\* the generator has returned: the queue it alone referenced and the
\* closed connection are released
Release(q) ==
  /\ stream' = [stream EXCEPT ![q] = "closed"]
  /\ queues' = [queues EXCEPT ![q] = <<>>]
  /\ observed' = [observed EXCEPT ![q] = <<>>]
  /\ first' = [first EXCEPT ![q] = "none"]
  /\ subAt' = [subAt EXCEPT ![q] = 0]

\* if await request.is_disconnected(): break -> finally: unsubscribe
StreamCheck(q) ==
  /\ Sleeping
  /\ stream[q] = "check"
  /\ IF disconnected[q]
       THEN /\ Unsubscribe(q)
            /\ Release(q)
       ELSE /\ stream' = [stream EXCEPT ![q] = "wait"]
            /\ UNCHANGED <<connections, unsubscribed, queues, observed, first,
                           subAt>>
  /\ UNCHANGED <<nq, disconnected>>
  /\ SchedIdle
  /\ UNCHANGED ovars

\* msg = await wait_for(client.get(), 25.0); yield the message event
StreamGet(q) ==
  /\ Sleeping
  /\ stream[q] = "wait"
  /\ queues[q] # <<>>
  /\ observed' = [observed EXCEPT
       ![q] = Append(@, [event |-> "message", data |-> QueueGet(queues[q]).item])]
  /\ queues' = [queues EXCEPT ![q] = QueueGet(@).rest]
  /\ first' = [first EXCEPT ![q] = IF @ = "none" THEN "message" ELSE @]
  /\ stream' = [stream EXCEPT ![q] = "check"]
  /\ UNCHANGED <<connections, nq, disconnected, unsubscribed, subAt>>
  /\ SchedIdle
  /\ UNCHANGED ovars

\* asyncio.TimeoutError after 25 s without a message: yield a ping event
\* (pings carry no published data: only a ping that opens the stream is kept)
StreamTimeout(q) ==
  /\ Sleeping
  /\ stream[q] = "wait"
  /\ queues[q] = <<>>
  /\ first' = [first EXCEPT ![q] = IF @ = "none" THEN "ping" ELSE @]
  /\ stream' = [stream EXCEPT ![q] = "check"]
  /\ UNCHANGED <<connections, queues, nq, disconnected, observed, unsubscribed,
                 subAt>>
  /\ SchedIdle
  /\ UNCHANGED ovars

\* a cancellation that leaves the generator without its finally block
StreamCancelLeaks(q) ==
  /\ Sleeping
  /\ stream[q] = "wait"
  /\ disconnected[q]
  /\ Release(q)
  /\ UNCHANGED <<connections, unsubscribed, nq, disconnected>>
  /\ SchedIdle
  /\ UNCHANGED ovars

\* the response cancels the generator of a disconnected client while it
\* awaits the queue: CancelledError leaves through finally: unsubscribe
StreamCancel(q) ==
  /\ Sleeping
  /\ stream[q] = "wait"
  /\ disconnected[q]
  /\ Unsubscribe(q)
  /\ Release(q)
  /\ UNCHANGED <<nq, disconnected>>
  /\ SchedIdle
  /\ UNCHANGED ovars

\* ------------------------------------------------------------ specification

InitServer ==
  /\ connections = <<>>
  /\ queues = [q \in Qids |-> <<>>]
  /\ nq = 0
  /\ stream = [q \in Qids |-> "none"]
  /\ disconnected = [q \in Qids |-> FALSE]
  /\ observed = [q \in Qids |-> <<>>]
  /\ first = [q \in Qids |-> "none"]
  /\ spc = "run"
  /\ cycle = 1
  /\ feed = <<>>
  /\ signals = <<>>
  /\ idx = 1
  /\ failed = 0
  /\ orders = <<>>
  /\ errmsg = "none"
  /\ npub = 0
  /\ lastPub = NoPub
  /\ unsubscribed = {}
  /\ subAt = [q \in Qids |-> 0]
  /\ lastUnsub = NoCall

EngineOff ==
  /\ epc = "off"
  /\ input = <<>>
  /\ ind = <<>>
  /\ votes = <<>>
  /\ result = <<>>

Init ==
  /\ InitServer
  /\ EngineOff

Next ==
  \/ SchedGenerate
  \/ SchedPublishSignal
  \/ SchedSubmitOrder
  \/ SchedPublishError
  \/ SchedSleep
  \/ SchedWake
  \/ Subscribe
  \/ \E q \in Qids : Disconnect(q)
  \/ \E q \in Qids : StreamCheck(q)
  \/ \E q \in Qids : StreamGet(q)
  \/ \E q \in Qids : StreamTimeout(q)
  \/ \E q \in Qids : StreamCancel(q)

Spec == Init /\ [][Next]_vars

\* ------------------------------------------- Broadcaster.unsubscribe alone

RECURSIVE SubLists(_)
\* the lists subscribe can have built from the first n queues: creation
\* order, any of them already gone
SubLists(n) ==
  IF n = 0 THEN {<<>>}
  ELSE SubLists(n - 1) \cup {Append(l, n) : l \in SubLists(n - 1)}

\* broadcaster.unsubscribe(q) called with any queue ever created
UnsubscribeCall(q) ==
  /\ Unsubscribe(q)
  /\ lastUnsub' = [q |-> q, before |-> connections,
                   again |-> q \in unsubscribed]
  /\ UNCHANGED <<queues, nq, stream, disconnected, observed, first, subAt>>
  /\ SchedIdle
  /\ UNCHANGED evars

InitUnsub ==
  /\ connections \in SubLists(MaxSubs + 1)
  /\ queues = [q \in Qids |-> <<>>]
  /\ nq = MaxSubs + 1
  /\ stream = [q \in Qids |-> IF q \in Range(connections) THEN "wait" ELSE "closed"]
  /\ disconnected = [q \in Qids |-> FALSE]
  /\ observed = [q \in Qids |-> <<>>]
  /\ first = [q \in Qids |-> "none"]
  /\ spc = "sleep"
  /\ cycle = 1
  /\ feed = <<>>
  /\ signals = <<>>
  /\ idx = 1
  /\ failed = 0
  /\ orders = <<>>
  /\ errmsg = "none"
  /\ npub = 0
  /\ lastPub = NoPub
  /\ unsubscribed = {}
  /\ subAt = [q \in Qids |-> 0]
  /\ lastUnsub = NoCall
  /\ EngineOff

NextUnsub == \E q \in Qids : UnsubscribeCall(q)

SpecUnsub == InitUnsub /\ [][NextUnsub]_vars

\* The event loop runs every task that is ready, and a timer that was set
\* elapses: the scheduler task and each stream task keep taking steps.
SchedStep ==
  \/ SchedGenerate
  \/ SchedPublishSignal
  \/ SchedSubmitOrder
  \/ SchedPublishError
  \/ SchedSleep
  \/ SchedWake

StreamStep(q) ==
  \/ StreamCheck(q)
  \/ StreamGet(q)
  \/ StreamTimeout(q)
  \/ StreamCancel(q)

NextLive ==
  \/ SchedStep
  \/ Accept(MaxLiveSubs)
  \/ \E q \in Qids : Disconnect(q)
  \/ \E q \in Qids : StreamStep(q)

SpecLive ==
  /\ Init
  /\ [][NextLive]_vars
  /\ WF_vars(SchedStep)
  /\ \A q \in Qids : WF_vars(StreamStep(q))


\* ------------------------------------- src/app/engine/strategies.py
\* Floats are modelled as exact rationals.  Prices are integers in units of
\* 10^-7, rounded prices in units of 10^-6, percentages rounded to two
\* places in units of 1/100, momentum in units of 1/10000.

MinCloses == 50
RsiMax == 100
SmaLongWindow == 200
BollingerWindow == 20
MomentumWindow == 10
RsiLow == 30
RsiHigh == 70
RsiWeakLow == 25
RsiWeakHigh == 75
MomentumThreshold == 100
TotalVotes == 5
StopPct == 2
TakeProfitPct == 4

PriceScale == 10^7

None == <<>>
Some(v) == <<v>>

\* round(): n/d to the nearest integer, ties to the even one (n >= 0, d > 0)
RoundDiv(n, d) ==
  LET q == n \div d
      r == n % d
  IN  IF 2 * r < d THEN q
      ELSE IF 2 * r > d THEN q + 1
      ELSE IF q % 2 = 0 THEN q ELSE q + 1

Max(a, b) == IF a > b THEN a ELSE b

\* a voter that tests both BUY conditions before both SELL conditions
RsiVoterBuyFirst(n, prev, curr) ==
  IF n < 2 THEN "HOLD"
  ELSE IF (prev < RsiLow /\ RsiLow <= curr) \/ curr < RsiWeakLow THEN "BUY"
  ELSE IF (prev > RsiHigh /\ RsiHigh >= curr) \/ curr > RsiWeakHigh THEN "SELL"
  ELSE "HOLD"

_strategy_rsi(n, prev, curr) ==
  IF n < 2 THEN "HOLD"
  ELSE IF prev < RsiLow /\ RsiLow <= curr THEN "BUY"
  ELSE IF prev > RsiHigh /\ RsiHigh >= curr THEN "SELL"
  ELSE IF curr < RsiWeakLow THEN "BUY"
  ELSE IF curr > RsiWeakHigh THEN "SELL"
  ELSE "HOLD"

_strategy_macd(n, prev_cross, curr_cross) ==
  IF n < 2 THEN "HOLD"
  ELSE IF prev_cross <= 0 /\ 0 < curr_cross THEN "BUY"
  ELSE IF prev_cross >= 0 /\ 0 > curr_cross THEN "SELL"
  ELSE "HOLD"

\* SMA(200) is NaN before row 200: a comparison with NaN is false
_strategy_sma_crossover(n, prev_cross, curr_cross) ==
  IF n < SmaLongWindow THEN "HOLD"
  ELSE IF ~prev_cross.nan /\ ~curr_cross.nan
          /\ prev_cross.v <= 0 /\ 0 < curr_cross.v THEN "BUY"
  ELSE IF ~prev_cross.nan /\ ~curr_cross.nan
          /\ prev_cross.v >= 0 /\ 0 > curr_cross.v THEN "SELL"
  ELSE "HOLD"

_strategy_bollinger(n, price, lower, upper) ==
  IF n < BollingerWindow THEN "HOLD"
  ELSE IF price <= lower THEN "BUY"
  ELSE IF price >= upper THEN "SELL"
  ELSE "HOLD"

_strategy_momentum(n, curr) ==
  IF n < MomentumWindow + 1 THEN "HOLD"
  ELSE IF curr > MomentumThreshold THEN "BUY"
  ELSE IF curr < 0 - MomentumThreshold THEN "SELL"
  ELSE "HOLD"

VoterNames == {"RSI", "MACD", "SMA_CROSS", "BOLLINGER", "MOMENTUM"}

CountVotes(vs, a) == Cardinality({k \in DOMAIN vs : vs[k] = a})

\* a tie that falls to BUY
DecideActionTieBuys(buy_votes, sell_votes) ==
  IF buy_votes >= sell_votes THEN "BUY" ELSE "SELL"

DecideAction(buy_votes, sell_votes) ==
  IF buy_votes > sell_votes THEN "BUY"
  ELSE IF sell_votes > buy_votes THEN "SELL"
  ELSE "HOLD"

\* one formula for every action: the share of the larger side
ConfidenceOfLargerSide(action, buy_votes, sell_votes, total_votes) ==
  RoundDiv(Max(buy_votes, sell_votes) * 100, total_votes)

Confidence(action, buy_votes, sell_votes, total_votes) ==
  IF action # "HOLD"
    THEN RoundDiv(Max(buy_votes, sell_votes) * 100, total_votes)
    ELSE RoundDiv((total_votes - Abs(buy_votes - sell_votes)) * 100, total_votes)

\* a test that forgets the empty frame
IsNoDataNoneOnly(data) == data.kind = "None"

\* data is None or data.empty
IsNoData(data) == data.kind = "None" \/ data.rows = 0

\* len(data["Close"].dropna())
CloseLen(data) == data.rows - data.nans

EarlyHold(symbol, reason) ==
  [symbol |-> symbol, action |-> "HOLD", reason |-> reason]

\* a sizing that divides by risk_per_unit itself, however small
QuantityUnclamped(action, equity, risk_per_trade_pct, entry_price) ==
  IF action \in {"BUY", "SELL"}
    THEN Max(1, (equity * risk_per_trade_pct * PriceScale)
                  \div (StopPct * entry_price))
    ELSE 0

\* int(max(1, floor(risk_capital / max(1e-8, risk_per_unit)))), in units of
\* 10^-9: risk_capital = equity * pct * 10^7, risk_per_unit = StopPct *
\* entry_price, and 1e-8 = 10
Quantity(action, equity, risk_per_trade_pct, entry_price) ==
  IF action \in {"BUY", "SELL"}
    THEN Max(1, (equity * risk_per_trade_pct * PriceScale)
                  \div Max(10, StopPct * entry_price))
    ELSE 0

\* the record built after the votes are in
FullSignal(symbol, data, equity, risk_per_trade_pct, timeframe, vs) ==
  LET buy_votes == CountVotes(vs, "BUY")
      sell_votes == CountVotes(vs, "SELL")
      total_votes == Cardinality(DOMAIN vs)
      action == DecideAction(buy_votes, sell_votes)
      confidence == Confidence(action, buy_votes, sell_votes, total_votes)
      entry_price == data.close
      traded == action \in {"BUY", "SELL"}
      \* numerators over 100 of the bracket prices
      stop100 == IF action = "SELL" THEN entry_price * (100 + StopPct)
                 ELSE entry_price * (100 - StopPct)
      take100 == IF action = "SELL" THEN entry_price * (100 - TakeProfitPct)
                 ELSE entry_price * (100 + TakeProfitPct)
      quantity == Quantity(action, equity, risk_per_trade_pct, entry_price)
      position_value == quantity * entry_price
      position_percent == IF equity > 0
                            THEN RoundDiv(position_value, 1000 * equity)
                            ELSE 0
  IN  [symbol |-> symbol,
       action |-> action,
       strategy_votes |-> vs,
       confidence |-> confidence,
       timeframe |-> timeframe,
       entry_price |-> RoundDiv(entry_price, 10),
       stop_loss_pct |-> IF traded THEN Some(StopPct * 100) ELSE None,
       take_profit_pct |-> IF traded THEN Some(TakeProfitPct * 100) ELSE None,
       stop_loss_price |-> IF traded /\ stop100 # 0
                             THEN Some(RoundDiv(stop100, 1000)) ELSE None,
       take_profit_price |-> IF traded /\ take100 # 0
                               THEN Some(RoundDiv(take100, 1000)) ELSE None,
       quantity |-> quantity,
       position_percent |-> position_percent,
       equity |-> equity,
       risk_per_trade_pct |-> risk_per_trade_pct,
       timestamp |-> "now",
       engine |-> "multi-strategy-v1",
       order_type |-> "MARKET"]

\* ----------------------------------------------------- analyze_symbol inputs

ClosePrices == {3, 124, PriceScale}
Equities == {0, 1, 100}
RiskPcts == {1, 2}
\* <<rows, rows whose Close is missing>>
FrameShapes == {<<0, 0>>, <<1, 0>>, <<1, 1>>, <<MinCloses - 1, 0>>,
                <<MinCloses, 1>>, <<MinCloses, 0>>, <<SmaLongWindow, 0>>,
                <<SmaLongWindow + 1, 0>>}
RsiValues == {24, 29, 30, 70, 71, 76}
CrossValues == {0 - 1, 0, 1}
MomentumValues == {0 - 200, 100, 200}

DataFrames ==
  {[kind |-> "None", rows |-> 0, nans |-> 0, close |-> 0]}
  \cup {[kind |-> "frame", rows |-> sh[1], nans |-> sh[2], close |-> c] :
          sh \in FrameShapes, c \in ClosePrices}

EngineInputs ==
  {[symbol |-> "AAPL", data |-> d, equity |-> e, risk_per_trade_pct |-> p,
    timeframe |-> "1d"] :
     d \in DataFrames, e \in Equities, p \in RiskPcts}

\* the SMA gap at a row: NaN until SmaLongWindow closes precede it
SmaGap(n, back, v) ==
  IF n - back < SmaLongWindow THEN [nan |-> TRUE, v |-> 0]
  ELSE [nan |-> FALSE, v |-> v]

\* price bands around the last close: at or below the lower band, inside,
\* at or above the upper band
Bands(c) == {<<c, c + 2>>, <<c - 1, c + 1>>, <<c - 2, c>>}

AnalyzeNoData ==
  /\ epc = "call"
  /\ IsNoData(input.data)
  /\ result' = EarlyHold(input.symbol, "no_data")
  /\ epc' = "done"
  /\ UNCHANGED <<input, ind, votes>>
  /\ UNCHANGED <<svars, lastUnsub>>

AnalyzeInsufficient ==
  /\ epc = "call"
  /\ ~IsNoData(input.data)
  /\ CloseLen(input.data) < MinCloses
  /\ result' = EarlyHold(input.symbol, "insufficient_data")
  /\ epc' = "done"
  /\ UNCHANGED <<input, ind, votes>>
  /\ UNCHANGED <<svars, lastUnsub>>

\* lines 145-151: the five voters run on the close series
AnalyzeVote ==
  /\ epc = "call"
  /\ ~IsNoData(input.data)
  /\ CloseLen(input.data) >= MinCloses
  /\ LET n == CloseLen(input.data)
     IN  \E rp \in RsiValues, rc \in RsiValues,
            mp \in CrossValues, mc \in CrossValues,
            sp \in CrossValues, sc \in CrossValues,
            b \in Bands(input.data.close), mo \in MomentumValues :
           /\ ind' = <<rp, rc>>
           /\ votes' =
                [k \in VoterNames |->
                   CASE k = "RSI" -> _strategy_rsi(n, rp, rc)
                     [] k = "MACD" -> _strategy_macd(n, mp, mc)
                     [] k = "SMA_CROSS" ->
                          _strategy_sma_crossover(n, SmaGap(n, 1, sp), SmaGap(n, 0, sc))
                     [] k = "BOLLINGER" ->
                          _strategy_bollinger(n, input.data.close, b[1], b[2])
                     [] k = "MOMENTUM" -> _strategy_momentum(n, mo)]
  /\ epc' = "voted"
  /\ UNCHANGED <<input, result>>
  /\ UNCHANGED <<svars, lastUnsub>>

\* lines 153-206: counting, bracket, sizing and the returned record
AnalyzeAggregate ==
  /\ epc = "voted"
  /\ result' = FullSignal(input.symbol, input.data, input.equity,
                          input.risk_per_trade_pct, input.timeframe, votes)
  /\ epc' = "done"
  /\ UNCHANGED <<input, ind, votes>>
  /\ UNCHANGED <<svars, lastUnsub>>

InitEngine ==
  /\ InitServer
  /\ epc = "call"
  /\ input \in EngineInputs
  /\ ind = <<>>
  /\ votes = <<>>
  /\ result = <<>>

NextEngine ==
  \/ AnalyzeNoData
  \/ AnalyzeInsufficient
  \/ AnalyzeVote
  \/ AnalyzeAggregate

SpecEngine == InitEngine /\ [][NextEngine]_vars

\* ------------------------------------------------------------------ claims

Registered(q) == q \in Range(connections)
PublishStep == npub' = npub + 1
Live(q) == stream[q] \in {"check", "wait"}

\* everything a stream has yielded or still holds, in order
Flow(q) == [i \in 1..Len(observed[q]) |-> observed[q][i].data] \o queues[q]

\* C1: publish(m) appends m exactly once to every queue registered at the
\* call and to no other queue, never finds a full queue to wait on, and
\* with an empty registry writes to no queue.
C1_PublishDelivers ==
  /\ [](spc \in {"loop", "except"} => \A q \in Qids : Registered(q) => ~Full(q))
  /\ [][PublishStep =>
          /\ \A q \in Qids :
               queues'[q] = IF Registered(q)
                              THEN Append(queues[q], lastPub'.msg)
                              ELSE queues[q]
          /\ lastPub'.registry = connections
          /\ connections = <<>> => queues' = queues]_vars

\* a publish has just delivered to two registered queues
C1_Witness ==
  /\ lastPub # NoPub
  /\ Len(lastPub.registry) = 2
  /\ \A i \in 1..2 :
       /\ queues[lastPub.registry[i]] # <<>>
       /\ queues[lastPub.registry[i]][Len(queues[lastPub.registry[i]])] = lastPub.msg

\* C2: each subscriber's stream yields the messages published while it is
\* registered in publish order, none lost and none twice: what it has yielded
\* followed by what its queue holds is in strictly increasing publish order
\* without a gap inside an iteration, a publish extends it by its message
\* and a yield leaves it unchanged.
C2_PerSubscriberOrder ==
  /\ [](\A q \in Qids : Live(q) =>
          /\ \A i \in 1..Len(Flow(q)) : Flow(q)[i].id[1] > subAt[q]
          /\ \A i \in 1..(Len(Flow(q)) - 1) :
               /\ Before(Flow(q)[i].id, Flow(q)[i + 1].id)
               /\ Flow(q)[i + 1].id[2] > 1 =>
                    Flow(q)[i].id = <<Flow(q)[i + 1].id[1], Flow(q)[i + 1].id[2] - 1>>)
  /\ [][\A q \in Qids : (Live(q) /\ Live(q)') =>
          IF PublishStep /\ Registered(q)
            THEN Flow(q)' = Append(Flow(q), lastPub'.msg)
            ELSE Flow(q)' = Flow(q)]_vars

\* a stream has yielded two messages of two successive publish calls
C2_Witness ==
  \E q \in Qids :
    /\ Len(observed[q]) >= 2
    /\ Before(observed[q][1].data.id, observed[q][2].data.id)

\* C3: once unsubscribe(q) has returned, q is out of the registry and no
\* publish call writes to q.
C3_NoPublishAfterUnsubscribe ==
  /\ [](\A q \in unsubscribed : ~Registered(q))
  /\ [][PublishStep => \A q \in unsubscribed : queues'[q] = queues[q]]_vars

\* a publish ran after an unsubscribe and delivered to another subscriber
C3_Witness ==
  /\ unsubscribed # {}
  /\ lastPub # NoPub
  /\ lastPub.registry # <<>>
  /\ \A q \in unsubscribed : queues[q] = <<>>

\* C4: the next publish removes from the registry every subscriber whose
\* queue is full or whose consumer has gone away.
C4_PublishEvictsUnhealthy ==
  [][PublishStep =>
       \A q \in Qids :
         (Registered(q) /\ (Full(q) \/ disconnected[q])) => q \notin Range(connections')]_vars


\* ------------------------------------------------------ _strategy_rsi alone

\* lengths of the RSI series: none, one value, two, a full history
RsiLens == {0, 1, 2, MinCloses}

\* compute_rsi yields values on the 0-100 scale (missing ones filled)
RsiRange == 0..RsiMax

\* _strategy_rsi(close): the vote on the two most recent RSI values
RsiVote ==
  /\ epc = "rsi"
  /\ votes' = [k \in {"RSI"} |-> _strategy_rsi(input.n, ind[1], ind[2])]
  /\ epc' = "rsi_done"
  /\ UNCHANGED <<input, ind, result>>
  /\ UNCHANGED <<svars, lastUnsub>>

InitRsi ==
  /\ InitServer
  /\ epc = "rsi"
  /\ input \in {[n |-> n] : n \in RsiLens}
  /\ ind \in RsiRange \X RsiRange
  /\ votes = <<>>
  /\ result = <<>>

NextRsi == RsiVote

SpecRsi == InitRsi /\ [][NextRsi]_vars

\* ---------------------------------------------------- claims on the engine

Returned == epc = "done"
Has(f) == f \in DOMAIN result
Absent(f) == ~Has(f) \/ result[f] = None
B == CountVotes(result.strategy_votes, "BUY")
S == CountVotes(result.strategy_votes, "SELL")

\* C5: every record analyze_symbol returns, on every return path, has
\* quantity >= 1 and both bracket prices present when its action is BUY or
\* SELL, and quantity = 0 and both bracket prices absent when it is HOLD.
C5_SignalInvariants ==
  Returned =>
    /\ result.action \in {"BUY", "SELL"} =>
         /\ Has("quantity") /\ result.quantity >= 1
         /\ ~Absent("stop_loss_price") /\ ~Absent("take_profit_price")
    /\ result.action = "HOLD" =>
         /\ Has("quantity") /\ result.quantity = 0
         /\ Absent("stop_loss_price") /\ Absent("take_profit_price")

\* C6: a non-empty frame with fewer than MinCloses non-missing closes yields
\* HOLD with reason "insufficient_data" and quantity 0, and no voter runs.
C6_InsufficientData ==
  (Returned /\ input.data.kind = "frame" /\ input.data.rows > 0
     /\ input.data.rows - input.data.nans < MinCloses) =>
    /\ result.action = "HOLD"
    /\ Has("reason") /\ result.reason = "insufficient_data"
    /\ Has("quantity") /\ result.quantity = 0
    /\ votes = <<>>

\* C7: missing or empty data yields HOLD with reason "no_data"; no vote is
\* cast and the call returns (every such call can take its return step).
C7_NoData ==
  /\ (epc = "call" /\ (input.data.kind = "None" \/ input.data.rows = 0)) =>
       ENABLED AnalyzeNoData
  /\ (Returned /\ (input.data.kind = "None" \/ input.data.rows = 0)) =>
       /\ result.action = "HOLD"
       /\ Has("reason") /\ result.reason = "no_data"
       /\ votes = <<>>
       /\ ~Has("strategy_votes")

C7_Witness ==
  /\ Returned
  /\ input.data.kind = "frame" /\ input.data.rows = 0
  /\ result.reason = "no_data"

\* C8: with B BUY votes and S SELL votes among the five, the action is BUY
\* when B > S, SELL when S > B, and HOLD otherwise.
C8_VoteAggregation ==
  (Returned /\ Has("strategy_votes")) =>
    /\ DOMAIN result.strategy_votes = VoterNames
    /\ B > S => result.action = "BUY"
    /\ S > B => result.action = "SELL"
    /\ B = S => result.action = "HOLD"

C8_Witness ==
  /\ Returned /\ Has("strategy_votes")
  /\ B = 2 /\ S = 2
  /\ result.action = "HOLD"

\* C9: confidence is an integer in [0, 100]; for BUY or SELL it is
\* max(B, S) / T * 100 and for HOLD it is (1 - |B - S| / T) * 100, so two
\* BUY, two SELL and one HOLD vote give HOLD with confidence 100.
C9_Confidence ==
  (Returned /\ Has("strategy_votes")) =>
    /\ result.confidence \in 0..100
    /\ result.action # "HOLD" =>
         result.confidence * TotalVotes = 100 * Max(B, S)
    /\ result.action = "HOLD" =>
         result.confidence * TotalVotes = 100 * (TotalVotes - Abs(B - S))
    /\ (B = 2 /\ S = 2) =>
         result.action = "HOLD" /\ result.confidence = 100

C9_Witness ==
  /\ Returned /\ Has("strategy_votes")
  /\ B = 2 /\ S = 2
  /\ result.confidence = 100

\* C10: on every return path position_percent equals
\* quantity * entry_price / equity * 100 to two decimal places when equity
\* is positive, and is 0 when equity is not positive.
C10_PositionPercent ==
  Returned =>
    /\ Has("position_percent") /\ Has("quantity") /\ Has("entry_price")
    /\ input.equity > 0 =>
         Abs(result.position_percent * 100 * input.equity
               - result.quantity * result.entry_price) <= 100 * input.equity
    /\ input.equity <= 0 => result.position_percent = 0


\* --------------------------------------------------- claims on the scheduler

\* C11: an error raised inside an iteration is caught and the loop goes on
\* to its sleep; the scheduler task never ends, so every iteration is
\* followed by the start of a further one (up to the iterations modelled).
C11_SchedulerSurvives ==
  /\ [](spc # "dead")
  /\ (spc = "except") ~> (spc = "sleep")
  /\ \A c \in 1..(MaxCycles - 1) : (cycle = c) ~> (cycle = c + 1 /\ spc = "run")

C11_Witness ==
  /\ cycle = MaxCycles
  /\ spc = "end"
  /\ errmsg = "download failed"
  /\ lastPub # NoPub /\ lastPub.msg.type = "error"


\* C12: when the download of one symbol fails, every other symbol of the
\* batch is still evaluated: each signal its history yields is in the list
\* the iteration processes.
C12_FetchFailureIsolated ==
  (feed # <<>> /\ failed # 0) =>
    \A i \in 1..Len(SYMBOLS) :
      i # failed =>
        \A k \in 1..Len(SymbolSignals(SYMBOLS[i], feed[i])) :
          \E j \in 1..Len(signals) :
            /\ signals[j].crypto = SymbolSignals(SYMBOLS[i], feed[i])[k].crypto
            /\ signals[j].strategie
                 = SymbolSignals(SYMBOLS[i], feed[i])[k].strategie


\* C13: the signals of one iteration reach the Broadcaster as one message:
\* an iteration that produced signals makes exactly one publish call, and no
\* subscriber holds two signal messages of the same iteration.
C13_BatchPublishedAtomically ==
  /\ (spc = "end" /\ failed = 0 /\ signals # <<>>) => npub = 1
  /\ \A q \in Qids :
       Live(q) =>
         \A i, j \in 1..Len(Flow(q)) :
           (i < j /\ Flow(q)[i].type = "signal" /\ Flow(q)[j].type = "signal")
             => Flow(q)[i].id[1] # Flow(q)[j].id[1]

\* C14: the first event a stream yields is a heartbeat, never a published
\* message, and the messages it yields afterwards arrive in publish order.
C14_HeartbeatFirst ==
  \A q \in Qids :
    /\ first[q] # "message"
    /\ \A i, j \in 1..Len(observed[q]) :
         i < j => Before(observed[q][i].data.id, observed[q][j].data.id)


\* C15: once a consumer has disconnected, its stream task unsubscribes its
\* queue: at the next disconnect check at the latest, on every way out of
\* the loop, and no publish that follows targets the queue.
C15_DisconnectUnsubscribes ==
  /\ [](\A q \in Qids :
          stream[q] = "closed" => (~Registered(q) /\ q \in unsubscribed))
  /\ [][\A q \in Qids :
          (disconnected[q] /\ stream'[q] # stream[q]) =>
            \/ stream'[q] = "closed"
            \/ stream[q] = "wait" /\ stream'[q] = "check"]_vars
  /\ [][PublishStep =>
          \A q \in Qids : stream[q] = "closed" => q \notin Range(lastPub'.registry)]_vars
  /\ \A q \in Qids :
       disconnected[q] ~> (stream[q] = "closed" /\ ~Registered(q))

C15_Witness ==
  \E q \in Qids :
    /\ disconnected[q]
    /\ stream[q] = "closed"
    /\ q \in unsubscribed
    /\ ~Registered(q)
    /\ lastPub # NoPub


\* C16: unsubscribe never fails; called with a queue that is not in the
\* registry it changes nothing, so a second call leaves what the first left;
\* and the other queues keep their registration and their order.
C16_UnsubscribeIdempotent ==
  /\ \A q \in Qids : ENABLED UnsubscribeCall(q)
  /\ lastUnsub # NoCall =>
       LET Other(x) == x # lastUnsub.q
       IN  /\ lastUnsub.q \notin Range(lastUnsub.before)
                => connections = lastUnsub.before
           /\ lastUnsub.again => connections = lastUnsub.before
           /\ lastUnsub.q \notin Range(connections)
           /\ connections = SelectSeq(lastUnsub.before, Other)

C16_Witness ==
  /\ lastUnsub # NoCall
  /\ lastUnsub.again
  /\ lastUnsub.before # <<>>
  /\ connections = lastUnsub.before


\* C17: an order the broker refuses is logged and nothing more: the loop
\* goes on, and at the end of the iteration every signal of the batch has
\* been published and handed to submit_order.
C17_OrderFailureNonFatal ==
  /\ spc \in {"loop", "order"} => (idx <= Len(signals) /\ Len(orders) = idx - 1)
  /\ (spc = "end" /\ failed = 0) =>
       (Len(orders) = Len(signals) /\ npub = Len(signals))
  /\ \A k \in 1..Len(orders) :
       /\ orders[k].crypto = signals[k].crypto
       /\ orders[k].side = "none" => orders[k].logged = "error"
  /\ spc # "except" => errmsg = "none" \/ failed # 0

C17_Witness ==
  /\ spc = "end"
  /\ Len(signals) = 2
  /\ Len(orders) = 2
  /\ orders[1].logged = "error"
  /\ orders[2].logged = "info"
  /\ npub = 2


\* C18: once generate_signals_for_symbols has returned a signal, no step of
\* the iteration (stamping, publish, order submission) changes a field of it.
C18_SignalImmutable ==
  [][(spc \in {"loop", "order"}) =>
       (Len(signals') = Len(signals)
          /\ \A i \in 1..Len(signals) : signals'[i] = signals[i])]_vars


\* ------------------------------------------- claims on sizing and bracket

Traded == Returned /\ Has("strategy_votes") /\ result.action \in {"BUY", "SELL"}
\* in units of 10^-9
RiskCapital == input.equity * input.risk_per_trade_pct * PriceScale
RiskPerUnit == StopPct * input.data.close

C20_BracketDirection ==
  (Traded /\ input.data.close > 0) =>
    /\ result.stop_loss_price # None
    /\ result.take_profit_price # None
    /\ result.action = "BUY" =>
         /\ result.stop_loss_price[1]
              = RoundDiv(input.data.close * (100 - StopPct), 1000)
         /\ result.take_profit_price[1]
              = RoundDiv(input.data.close * (100 + TakeProfitPct), 1000)
         /\ result.stop_loss_price[1] < result.entry_price
         /\ result.entry_price < result.take_profit_price[1]
    /\ result.action = "SELL" =>
         /\ result.stop_loss_price[1]
              = RoundDiv(input.data.close * (100 + StopPct), 1000)
         /\ result.take_profit_price[1]
              = RoundDiv(input.data.close * (100 - TakeProfitPct), 1000)
         /\ result.take_profit_price[1] < result.entry_price
         /\ result.entry_price < result.stop_loss_price[1]


\* ------------------------------------------------- claims on the RSI voter

RsiVoted == epc = "rsi_done"
CrossUp == ind[1] < 30 /\ ind[2] >= 30
CrossDown == ind[1] > 70 /\ ind[2] <= 70

\* C21 as stated, its BUY conditions read first: BUY when previous < 30 and
\* current >= 30 or current < 25, SELL when previous > 70 and current <= 70
\* or current > 75, HOLD otherwise, and HOLD with fewer than 2 RSI values.
C21_RsiVoter ==
  RsiVoted =>
    /\ input.n < 2 => votes["RSI"] = "HOLD"
    /\ input.n >= 2 =>
         /\ (CrossUp \/ ind[2] < 25) => votes["RSI"] = "BUY"
         /\ (~(CrossUp \/ ind[2] < 25) /\ (CrossDown \/ ind[2] > 75))
              => votes["RSI"] = "SELL"
         /\ (~(CrossUp \/ ind[2] < 25) /\ ~(CrossDown \/ ind[2] > 75))
              => votes["RSI"] = "HOLD"

\* C21 amended: the two crossings come before the two extreme levels. BUY on
\* the upward cross of 30; otherwise SELL on the downward cross of 70;
\* otherwise BUY when current < 25; otherwise SELL when current > 75;
\* otherwise HOLD; and HOLD with fewer than 2 RSI values.
C21_RsiVoterCrossFirst ==
  RsiVoted =>
    /\ input.n < 2 => votes["RSI"] = "HOLD"
    /\ input.n >= 2 =>
         /\ CrossUp => votes["RSI"] = "BUY"
         /\ CrossDown => votes["RSI"] = "SELL"
         /\ (~CrossUp /\ ~CrossDown /\ ind[2] < 25) => votes["RSI"] = "BUY"
         /\ (~CrossUp /\ ~CrossDown /\ ind[2] > 75) => votes["RSI"] = "SELL"
         /\ (~CrossUp /\ ~CrossDown /\ ind[2] >= 25 /\ ind[2] <= 75)
              => votes["RSI"] = "HOLD"

C21_Witness ==
  /\ RsiVoted
  /\ input.n >= 2
  /\ ind[1] > 70 /\ ind[2] < 25
  /\ votes["RSI"] = "SELL"

====
